---- MODULE Spec2Model ----
(***************************************************************************)
(* Model of ladders.py: the Expression class (a dictionary from term       *)
(* strings to complex coefficients) with its parser, the Hilbert-space     *)
(* organizer, the mode splitter, the recursive normal-ordering reducer and *)
(* the algebra built on them (add, multiply, power, scalar_multiply).      *)
(*                                                                         *)
(* Python strings are sequences of one-character strings, indexed from 0   *)
(* through the helpers below, so that slicing, find, split, strip and      *)
(* replace are computed the way str computes them.  A dict is a function   *)
(* from its keys to its values (the insertion order is not kept: every     *)
(* loop over a dict in ladders.py sums into another dict or collects a     *)
(* sorted list, so the order does not reach any result).  A coefficient    *)
(* is a Gaussian integer <<re, im>>; Python's int 1 and complex 1+0j are   *)
(* equal as dict values and are both <<1, 0>>.                             *)
(***************************************************************************)
EXTENDS Integers, Sequences, FiniteSets, TLC

VARIABLES objs, dicts, last, pc, inp, stack, ret

vars == <<objs, dicts, last, pc, inp, stack, ret>>

----------------------------------------------------------------------------
(* str primitives *)

Letters == {"a", "b", "c", "j"}
Digits == {"0", "1", "2", "3", "4", "5", "6", "7", "8", "9"}

\* str.isalpha on one character
IsAlpha(ch) == ch \in Letters

\* code-point order of the letters (sorted() on a list of characters)
Ord(ch) == CASE ch = "a" -> 97 [] ch = "b" -> 98 [] ch = "c" -> 99
             [] ch = "j" -> 106 [] OTHER -> 0

DigitVal(ch) == CASE ch = "0" -> 0 [] ch = "1" -> 1 [] ch = "2" -> 2
                  [] ch = "3" -> 3 [] ch = "4" -> 4 [] ch = "5" -> 5
                  [] ch = "6" -> 6 [] ch = "7" -> 7 [] ch = "8" -> 8
                  [] ch = "9" -> 9 [] OTHER -> 0

\* s[i:j] for 0 <= i, j
Slice(s, i, j) == SubSeq(s, i + 1, IF j > Len(s) THEN Len(s) ELSE j)

\* s[i:]
SliceFrom(s, i) == SubSeq(s, i + 1, Len(s))

StartsWith(s, p) == Len(p) <= Len(s) /\ SubSeq(s, 1, Len(p)) = p

EndsWith(s, p) ==
    Len(p) <= Len(s) /\ SubSeq(s, Len(s) - Len(p) + 1, Len(s)) = p

\* s.find(p): the lowest 0-based index where p occurs, -1 when it does not
Find(s, p) ==
    LET hits == {i \in 0..(Len(s) - Len(p)) : Slice(s, i, i + Len(p)) = p}
    IN IF hits = {} THEN -1
       ELSE CHOOSE i \in hits : \A k \in hits : i <= k

\* p in s
Contains(s, p) == Find(s, p) # -1

RECURSIVE Split(_, _)
\* s.split(sep): cut at the non-overlapping occurrences of sep, left to right
Split(s, sep) ==
    LET idx == Find(s, sep)
    IN IF idx = -1 THEN <<s>>
       ELSE <<Slice(s, 0, idx)>> \o Split(SliceFrom(s, idx + Len(sep)), sep)

RECURSIVE LStrip(_, _)
LStrip(s, chars) ==
    IF s # <<>> /\ s[1] \in chars THEN LStrip(Tail(s), chars) ELSE s

RECURSIVE RStrip(_, _)
RStrip(s, chars) ==
    IF s # <<>> /\ s[Len(s)] \in chars
    THEN RStrip(SubSeq(s, 1, Len(s) - 1), chars) ELSE s

\* s.strip(chars)
Strip(s, chars) == RStrip(LStrip(s, chars), chars)

RECURSIVE Replace(_, _, _)
\* s.replace(old, new): non-overlapping occurrences, left to right, one pass
Replace(s, old, new) ==
    LET idx == Find(s, old)
    IN IF idx = -1 THEN s
       ELSE Slice(s, 0, idx) \o new
              \o Replace(SliceFrom(s, idx + Len(old)), old, new)

RECURSIVE SortedDescending(_)
\* faulty variant of Sorted: sorted(S, reverse=True)
SortedDescending(S) ==
    IF S = {} THEN <<>>
    ELSE LET m == CHOOSE x \in S : \A y \in S : Ord(x) >= Ord(y)
         IN <<m>> \o SortedDescending(S \ {m})

\* sorted(S) for a set of characters
RECURSIVE Sorted(_)
Sorted(S) ==
    IF S = {} THEN <<>>
    ELSE LET m == CHOOSE x \in S : \A y \in S : Ord(x) <= Ord(y)
         IN <<m>> \o Sorted(S \ {m})

Range(f) == {f[i] : i \in DOMAIN f}

----------------------------------------------------------------------------
(* complex coefficients *)

CAdd(x, y) == <<x[1] + y[1], x[2] + y[2]>>
CMul(x, y) == <<x[1] * y[1] - x[2] * y[2], x[1] * y[2] + x[2] * y[1]>>
COne == <<1, 0>>

IsDigits(s) == s # <<>> /\ \A i \in 1..Len(s) : s[i] \in Digits

RECURSIVE IntVal(_)
IntVal(s) ==
    IF s = <<>> THEN 0
    ELSE 10 * IntVal(SubSeq(s, 1, Len(s) - 1)) + DigitVal(s[Len(s)])

\* the literals complex() is given here: "d", "dj", "j", "d+dj", "d+j"
\* with d a run of digits; every other string is a ValueError
IsImag(s) == s = <<"j">> \/ (EndsWith(s, <<"j">>) /\ IsDigits(Slice(s, 0, Len(s) - 1)))

ImagVal(s) == IF s = <<"j">> THEN 1 ELSE IntVal(Slice(s, 0, Len(s) - 1))

ComplexOk(s) ==
    \/ IsDigits(s)
    \/ IsImag(s)
    \/ LET k == Find(s, <<"+">>)
       IN k > 0 /\ IsDigits(Slice(s, 0, k)) /\ IsImag(SliceFrom(s, k + 1))

Complex(s) ==
    IF IsDigits(s) THEN <<IntVal(s), 0>>
    ELSE IF IsImag(s) THEN <<0, ImagVal(s)>>
    ELSE LET k == Find(s, <<"+">>)
         IN <<IntVal(Slice(s, 0, k)), ImagVal(SliceFrom(s, k + 1))>>

----------------------------------------------------------------------------
(* dict helpers *)

EmptyDict == <<>>

Keys(d) == DOMAIN d

\* d[k] = v
DictSet(d, k, v) == [x \in (DOMAIN d) \cup {k} |-> IF x = k THEN v ELSE d[x]]

\* {k: v}
Single(k, v) == [x \in {k} |-> v]

----------------------------------------------------------------------------
(* Expression: parser and mode registry *)

US == <<"_">>
ADDSEP == <<"(", "+", ")">>

\* find_first_alphabet_index: index of the first letter other than j, 0 when
\* the loop ends without a break
find_first_alphabet_index(term_string) ==
    LET hits == {i \in 0..(Len(term_string) - 1) :
                    IsAlpha(term_string[i + 1]) /\ term_string[i + 1] # "j"}
    IN IF hits = {} THEN 0
       ELSE CHOOSE i \in hits : \A k \in hits : i <= k

\* one pass of the loop body of parse_expr_string; complex() raising
\* ValueError leaves the function
TermRaises(term) ==
    LET first_alphabet_idx == find_first_alphabet_index(term)
    IN first_alphabet_idx # 0 /\ ~ComplexOk(Slice(term, 0, first_alphabet_idx))

ParseTerm(expr_dict, term) ==
    LET first_alphabet_idx == find_first_alphabet_index(term)
        operators == SliceFrom(term, first_alphabet_idx)
    IN IF first_alphabet_idx = 0
       THEN DictSet(expr_dict, operators, COne)
       ELSE DictSet(expr_dict, operators,
                    Complex(Slice(term, 0, first_alphabet_idx)))

RECURSIVE ParseTerms(_, _)
ParseTerms(terms, expr_dict) ==
    IF terms = <<>> THEN expr_dict
    ELSE ParseTerms(Tail(terms), ParseTerm(expr_dict, Head(terms)))

parse_raises(expr_string) ==
    /\ expr_string # <<>>
    /\ \E t \in Range(Split(expr_string, ADDSEP)) : TermRaises(t)

parse_expr_string(expr_string) ==
    IF expr_string = <<>> THEN EmptyDict
    ELSE ParseTerms(Split(expr_string, ADDSEP), EmptyDict)

\* find_modes: the letters of the keys, sorted; j is not excluded here
find_modes(expr_dict) ==
    Sorted({ch \in Letters :
              \E term \in Keys(expr_dict) :
                 LET operators == Strip(term, {"_", "+"})
                 IN \E i \in 1..Len(operators) :
                       operators[i] = ch /\ IsAlpha(operators[i])})

----------------------------------------------------------------------------
(* string surgery on one term *)

clean_string(term_string) ==
    LET s1 == IF EndsWith(term_string, US)
              THEN Slice(term_string, 0, Len(term_string) - 1)
              ELSE term_string
        s2 == IF StartsWith(s1, US) THEN SliceFrom(s1, 1) ELSE s1
    IN Replace(s2, <<"_", "_">>, US)

RECURSIVE CopyMode(_, _)
\* the inner loop of hspace_organize for one mode
CopyMode(operators, mode) ==
    IF operators = <<>> THEN <<>>
    ELSE (IF Contains(Head(operators), <<mode>>)
          THEN Head(operators) \o US ELSE <<>>)
         \o CopyMode(Tail(operators), mode)

RECURSIVE OrganizeModes(_, _)
OrganizeModes(modes, term_string) ==
    IF modes = <<>> THEN <<>>
    ELSE CopyMode(Split(term_string, US), Head(modes))
         \o OrganizeModes(Tail(modes), term_string)

hspace_organize(term_string) ==
    LET organized_term ==
            OrganizeModes(find_modes(Single(term_string, COne)), term_string)
    IN Slice(organized_term, 0, Len(organized_term) - 1)

RECURSIVE SplitLoop(_, _, _)
\* the for loop of split_modes: <<multi_mode_string, splitted_expressions>>
SplitLoop(modes, multi_mode_string, splitted) ==
    IF modes = <<>> THEN <<multi_mode_string, splitted>>
    ELSE LET idx == Find(multi_mode_string, <<Head(modes)>>)
         IN SplitLoop(Tail(modes),
                      clean_string(SliceFrom(multi_mode_string, idx)),
                      Append(splitted,
                             clean_string(Slice(multi_mode_string, 0, idx))))

\* list.remove(x): drops the first x
RemoveFirst(list, x) ==
    LET i == CHOOSE k \in 1..Len(list) :
                 list[k] = x /\ \A m \in 1..(k - 1) : list[m] # x
    IN SubSeq(list, 1, i - 1) \o SubSeq(list, i + 1, Len(list))

SplitAll(multi_mode_string) ==
    LET r == SplitLoop(find_modes(Single(multi_mode_string, COne)),
                       multi_mode_string, <<>>)
    IN Append(r[2], clean_string(r[1]))

\* list.remove("") raises ValueError when no element is ""
split_modes_raises(multi_mode_string) ==
    <<>> \notin Range(SplitAll(multi_mode_string))

split_modes(multi_mode_string) ==
    RemoveFirst(SplitAll(multi_mode_string), <<>>)

----------------------------------------------------------------------------
(* normal ordering of a single-mode term *)

\* n = mode + "+_" + mode
NumberOp(mode) == <<mode, "+", "_", mode>>

\* n_dag = mode + "_" + mode + "+"
n_dag(mode) == <<mode, "_", mode, "+">>

\* faulty variant of FindNDag: the last occurrence of n_dag, not the first
FindNDagLast(mode, single_mode_term) ==
    LET hits == {i \in 0..(Len(single_mode_term) - Len(n_dag(mode))) :
                   Slice(single_mode_term, i, i + Len(n_dag(mode))) = n_dag(mode)}
    IN IF hits = {} THEN -1
       ELSE CHOOSE i \in hits : \A k \in hits : k <= i

\* idx = single_mode_term.find(n_dag)
FindNDag(mode, single_mode_term) == Find(single_mode_term, n_dag(mode))

NOLeft(single_mode_term, idx) == clean_string(Slice(single_mode_term, 0, idx))

\* faulty variant of NORight: the slice starts after the annihilation operator only
NORightAfterFirst(mode, single_mode_term, idx) ==
    clean_string(SliceFrom(single_mode_term, idx + Len(<<mode, "_">>)))

NORight(mode, single_mode_term, idx) ==
    clean_string(SliceFrom(single_mode_term, idx + Len(n_dag(mode))))

\* faulty variant of term_with_n: n_dag is put back where n should go
term_with_n_dag(mode, single_mode_term, idx) ==
    CHOOSE t \in {clean_string(left \o US \o n_dag(mode) \o US \o right) :
                    left \in {NOLeft(single_mode_term, idx)},
                    right \in {NORight(mode, single_mode_term, idx)}} : TRUE

\* term_with_n = clean_string(left + "_" + n + "_" + right), with left and
\* right bound to their values
term_with_n(mode, single_mode_term, idx) ==
    CHOOSE t \in {clean_string(left \o US \o NumberOp(mode) \o US \o right) :
                    left \in {NOLeft(single_mode_term, idx)},
                    right \in {NORight(mode, single_mode_term, idx)}} : TRUE

\* faulty variant of term_with_1: the pair is reordered instead of dropped
term_with_1_keeps_pair(mode, single_mode_term, idx) ==
    CHOOSE t \in {clean_string(left \o US \o NumberOp(mode) \o US \o right) :
                    left \in {NOLeft(single_mode_term, idx)},
                    right \in {NORight(mode, single_mode_term, idx)}} : TRUE

\* term_with_1 = clean_string(left + "_" + right)
term_with_1(mode, single_mode_term, idx) ==
    CHOOSE t \in {clean_string(left \o US \o right) :
                    left \in {NOLeft(single_mode_term, idx)},
                    right \in {NORight(mode, single_mode_term, idx)}} : TRUE

\* add_expr_dicts: dict1 after the loop over dict2 (the value of the dict the
\* caller passed as dict1)
add_expr_dicts(dict1, dict2) ==
    [key \in Keys(dict1) \cup Keys(dict2) |->
        IF key \in Keys(dict1) /\ key \in Keys(dict2)
        THEN CAdd(dict1[key], dict2[key])
        ELSE IF key \in Keys(dict1) THEN dict1[key] ELSE dict2[key]]

RECURSIVE normal_ordering(_, _, _)
normal_ordering(mode, single_mode_term, coeff) ==
    LET idx == FindNDag(mode, single_mode_term)
    IN IF idx = -1 THEN Single(single_mode_term, coeff)
       ELSE add_expr_dicts(
                normal_ordering(mode, term_with_n(mode, single_mode_term, idx), coeff),
                normal_ordering(mode, term_with_1(mode, single_mode_term, idx), coeff))

----------------------------------------------------------------------------
(* the product of two terms *)

RECURSIVE CSum(_, _, _)
\* the sum of value1 * value2 over a set of key pairs
CSum(pairs, dict1, dict2) ==
    IF pairs = {} THEN <<0, 0>>
    ELSE LET p == CHOOSE q \in pairs : TRUE
         IN CAdd(CMul(dict1[p[1]], dict2[p[2]]),
                 CSum(pairs \ {p}, dict1, dict2))

NewKey(key1, key2) == clean_string(key1 \o US \o key2)

multiply_normal_ordered_single_mode_dicts(dict1, dict2) ==
    LET pairs == Keys(dict1) \X Keys(dict2)
    IN [new_key \in {NewKey(p[1], p[2]) : p \in pairs} |->
          CSum({p \in pairs : NewKey(p[1], p[2]) = new_key}, dict1, dict2)]

RECURSIVE ModeLoop(_, _)
\* the loop of multiply over split_modes(...), from the value temp has
ModeLoop(single_mode_terms, temp) ==
    IF single_mode_terms = <<>> THEN temp
    ELSE LET single_mode_term == Head(single_mode_terms)
             mode == single_mode_term[1]
             normal_ordered_single_mode_dict ==
                 normal_ordering(mode, single_mode_term, COne)
         IN ModeLoop(Tail(single_mode_terms),
                     IF temp = EmptyDict
                     THEN normal_ordered_single_mode_dict
                     ELSE multiply_normal_ordered_single_mode_dicts(
                              temp, normal_ordered_single_mode_dict))

\* temp[key] = value * overall_coeff for every key
Scale(temp, overall_coeff) ==
    [key \in Keys(temp) |-> CMul(temp[key], overall_coeff)]

\* the body of the double loop of multiply for one (term1, term2): whether it
\* raises, and the dict that is added into result.expr_dict
PairRaises(term1, term2) ==
    /\ ~(term1 = <<>> /\ term2 = <<>>)
    /\ LET hspace_organized_term == hspace_organize(term1 \o US \o term2)
       IN \/ split_modes_raises(hspace_organized_term)
          \/ <<>> \in Range(split_modes(hspace_organized_term))

PairDict(term1, coeff1, term2, coeff2) ==
    IF term1 = <<>> /\ term2 = <<>>
    THEN Single(<<>>, CMul(coeff1, coeff2))
    ELSE Scale(ModeLoop(split_modes(hspace_organize(term1 \o US \o term2)),
                        EmptyDict),
               CMul(coeff1, coeff2))

----------------------------------------------------------------------------
(* Expression objects.  objs[i] is the i-th Expression handed to the caller: *)
(* its expr_dict attribute is a reference (an index into dicts) and its      *)
(* modes attribute a list.  A heap is a record [objs, dicts]; an operation   *)
(* gives [heap, res, raised]: the heap after the call, the index of the      *)
(* Expression it returns, and whether it raised instead.                     *)

NoModes == <<>>

\* Expression(expr_string): __init__ binds a new dict and its modes
NewExpression(H, expr_dict, modes) ==
    [objs  |-> Append(H.objs, [expr_dict |-> Len(H.dicts) + 1, modes |-> modes]),
     dicts |-> Append(H.dicts, expr_dict)]

Raised(H) == [heap |-> H, res |-> 0, raised |-> TRUE]

Returned(H, r) == [heap |-> H, res |-> r, raised |-> FALSE]

Construct(H, expr_string) ==
    IF parse_raises(expr_string) THEN Raised(H)
    ELSE LET expr_dict == parse_expr_string(expr_string)
             H1 == NewExpression(H, expr_dict, find_modes(expr_dict))
         IN Returned(H1, Len(H1.objs))

DictOf(H, e) == H.dicts[H.objs[e].expr_dict]

SetModes(H, e, modes) == [H EXCEPT !.objs[e].modes = modes]

\* faulty variant of ResultDict: the writes go to the operand's own dict
ResultDictSelf(H, result, operand) == H.objs[operand].expr_dict

\* the dict a statement result.expr_dict[...] = ... or
\* add_expr_dicts(result.expr_dict, ...) writes into
ResultDict(H, result, operand) == H.objs[result].expr_dict

\* the first loop of add: result.expr_dict[term] = coeff for expr1's items
CopyItems(into, from) ==
    [term \in Keys(into) \cup Keys(from) |->
        IF term \in Keys(from) THEN from[term] ELSE into[term]]

add(H, expr1, expr2) ==
    LET H1 == NewExpression(H, EmptyDict, NoModes)
        result == Len(H1.objs)
        target == ResultDict(H1, result, expr1)
        H2 == [H1 EXCEPT !.dicts[target] = CopyItems(@, DictOf(H1, expr1))]
        H3 == [H2 EXCEPT !.dicts[target] = add_expr_dicts(@, DictOf(H2, expr2))]
    IN Returned(SetModes(H3, result, find_modes(DictOf(H3, result))), result)

RECURSIVE MultiplyLoop(_, _, _, _, _)
\* the double loop of multiply over a set of (term1, term2) still to visit
MultiplyLoop(H, target, self, other_expr, pairs) ==
    IF pairs = {} THEN H
    ELSE LET p == CHOOSE q \in pairs : TRUE
             temp == PairDict(p[1], DictOf(H, self)[p[1]],
                              p[2], DictOf(H, other_expr)[p[2]])
         IN MultiplyLoop([H EXCEPT !.dicts[target] = add_expr_dicts(@, temp)],
                         target, self, other_expr, pairs \ {p})

multiply_raises(H, self, other_expr) ==
    \E term1 \in Keys(DictOf(H, self)), term2 \in Keys(DictOf(H, other_expr)) :
        PairRaises(term1, term2)

multiply(H, self, other_expr) ==
    IF multiply_raises(H, self, other_expr) THEN Raised(H)
    ELSE LET H1 == NewExpression(H, EmptyDict, NoModes)
             result == Len(H1.objs)
             H2 == SetModes(H1, result,
                            Sorted(Range(H1.objs[self].modes)
                                   \cup Range(H1.objs[other_expr].modes)))
             target == ResultDict(H2, result, self)
         IN Returned(MultiplyLoop(H2, target, self, other_expr,
                                  Keys(DictOf(H2, self))
                                  \X Keys(DictOf(H2, other_expr))),
                     result)

\* copy.deepcopy(expr)
DeepCopy(H, expr) ==
    NewExpression(H, DictOf(H, expr), H.objs[expr].modes)

RECURSIVE PowerLoop(_, _, _, _)
\* for _ in range(count): result = result.multiply(expr)
PowerLoop(H, result, expr, count) ==
    IF count <= 0 THEN Returned(H, result)
    ELSE LET m == multiply(H, result, expr)
         IN IF m.raised THEN m
            ELSE PowerLoop(m.heap, m.res, expr, count - 1)

\* the caller keeps the Expressions it had and the one returned; the
\* intermediate results of the loop are unreachable and are dropped
Keep(H0, r) ==
    IF r.raised THEN Raised(H0)
    ELSE LET n == Len(H0.objs)
             m == Len(H0.dicts)
         IN Returned([objs  |-> SubSeq(r.heap.objs, 1, n)
                                \o <<[expr_dict |-> m + 1,
                                      modes |-> r.heap.objs[r.res].modes]>>,
                      dicts |-> SubSeq(r.heap.dicts, 1, m)
                                \o <<DictOf(r.heap, r.res)>>],
                     n + 1)

power(H, expr, exponent) ==
    LET H1 == DeepCopy(H, expr)
    IN Keep(H, PowerLoop(H1, Len(H1.objs), expr, exponent - 1))

\* the loop of scalar_multiply: result.expr_dict[term] = coeff * scalar
ScaleItems(into, from, scalar) ==
    [term \in Keys(into) \cup Keys(from) |->
        IF term \in Keys(from) THEN CMul(from[term], scalar) ELSE into[term]]

scalar_multiply(H, expr, scalar) ==
    LET H1 == NewExpression(H, EmptyDict, NoModes)
        result == Len(H1.objs)
        target == ResultDict(H1, result, expr)
    IN Returned([H1 EXCEPT !.dicts[target] =
                     ScaleItems(@, DictOf(H1, expr), scalar)],
                result)

\* compare_expr: same keys, and values close (np.isclose with atol 1e-9 is
\* equality on the integer coefficients)
compare_expr(H, expr1, expr2) ==
    /\ Keys(DictOf(H, expr1)) = Keys(DictOf(H, expr2))
    /\ \A key \in Keys(DictOf(H, expr1)) \cap Keys(DictOf(H, expr2)) :
          DictOf(H, expr1)[key] = DictOf(H, expr2)[key]

----------------------------------------------------------------------------
(* The client: any sequence of constructions and algebra calls on the        *)
(* Expressions made so far.                                                  *)

MaxObjs == 3
MaxTokens == 6
MaxExponent == 2

\* "", "a", "a+", "b_a+", "2a+_a(+)1", "2j", "2ja_a+(+)b"
Inputs ==
    {<<>>,
     <<"a">>,
     <<"a", "+">>,
     <<"b", "_", "a", "+">>,
     <<"2", "a", "+", "_", "a", "(", "+", ")", "1">>,
     <<"2", "j">>,
     <<"2", "j", "a", "_", "a", "+", "(", "+", ")", "b">>}

Scalars == {<<2, 0>>, <<0, 1>>}

Idle == [op |-> "none", a |-> 0, b |-> 0, res |-> 0, raised |-> FALSE,
         str |-> <<>>, scalar |-> <<0, 0>>, exponent |-> 0]

Heap == [objs |-> objs, dicts |-> dicts]

\* number of operators of a key, and the longest key of a dict
Tokens(term) == IF term = <<>> THEN 0 ELSE Len(Split(term, US))

Longest(d) ==
    IF Keys(d) = {} THEN 0
    ELSE CHOOSE n \in {Tokens(k) : k \in Keys(d)} :
            \A k \in Keys(d) : Tokens(k) <= n

Size(e) == Longest(DictOf(Heap, e))

Commit(r, call) ==
    /\ objs' = r.heap.objs
    /\ dicts' = r.heap.dicts
    /\ last' = [call EXCEPT !.res = r.res, !.raised = r.raised]
    /\ UNCHANGED <<pc, inp, stack, ret>>

DoConstruct(expr_string) ==
    /\ Len(objs) < MaxObjs
    /\ Commit(Construct(Heap, expr_string),
              [Idle EXCEPT !.op = "Expression", !.str = expr_string])

DoAdd(expr1, expr2) ==
    /\ Len(objs) < MaxObjs
    /\ Commit(add(Heap, expr1, expr2),
              [Idle EXCEPT !.op = "add", !.a = expr1, !.b = expr2])

DoMultiply(self, other_expr) ==
    /\ Len(objs) < MaxObjs
    /\ Size(self) + Size(other_expr) <= MaxTokens
    /\ Commit(multiply(Heap, self, other_expr),
              [Idle EXCEPT !.op = "multiply", !.a = self, !.b = other_expr])

DoPower(expr, exponent) ==
    /\ Len(objs) < MaxObjs
    /\ Size(expr) * exponent <= MaxTokens
    /\ Commit(power(Heap, expr, exponent),
              [Idle EXCEPT !.op = "power", !.a = expr, !.exponent = exponent])

DoScalarMultiply(expr, scalar) ==
    /\ Len(objs) < MaxObjs
    /\ Commit(scalar_multiply(Heap, expr, scalar),
              [Idle EXCEPT !.op = "scalar_multiply", !.a = expr,
                           !.scalar = scalar])

Init ==
    /\ objs = <<>>
    /\ dicts = <<>>
    /\ last = Idle
    /\ pc = 0
    /\ inp = <<>>
    /\ stack = <<>>
    /\ ret = EmptyDict

Next ==
    \/ \E expr_string \in Inputs : DoConstruct(expr_string)
    \/ \E expr1, expr2 \in 1..Len(objs) : DoAdd(expr1, expr2)
    \/ \E self, other_expr \in 1..Len(objs) : DoMultiply(self, other_expr)
    \/ \E expr \in 1..Len(objs), exponent \in 1..MaxExponent :
          DoPower(expr, exponent)
    \/ \E expr \in 1..Len(objs), scalar \in Scalars :
          DoScalarMultiply(expr, scalar)

Spec == Init /\ [][Next]_vars

----------------------------------------------------------------------------
(* Properties of the client specification Spec *)

ModeLetters == Letters \ {"j"}

\* a term of the input with no operator letter
BareLiteral(term) == \A i \in 1..Len(term) : term[i] \notin ModeLetters

Called(op) == last.op = op /\ ~last.raised

\* "2a+_a(+)1"
Str_2aDag_a_plus_1 == <<"2", "a", "+", "_", "a", "(", "+", ")", "1">>

\* C2: a constructed Expression stores a bare numeric literal c of its input
\* under the empty key with coefficient c, and a term with operators under
\* its operator string with its prefix as coefficient (1 without a prefix);
\* parsing "2a+_a(+)1" gives {"a+_a": 2, "": 1} with modes ["a"].
C2_ConstantUnderEmptyKey ==
    Called("Expression") =>
        LET d == DictOf(Heap, last.res)
        IN /\ \A term \in Range(Split(last.str, ADDSEP)) :
                (term # <<>> /\ BareLiteral(term)) =>
                    (<<>> \in Keys(d) /\ d[<<>>] = Complex(term))
           /\ \A term \in Range(Split(last.str, ADDSEP)) :
                \A k \in 1..Len(term) :
                    (/\ term[k] \in ModeLetters
                     /\ \A i \in 1..(k - 1) : term[i] \notin ModeLetters) =>
                        /\ SubSeq(term, k, Len(term)) \in Keys(d)
                        /\ d[SubSeq(term, k, Len(term))] =
                              IF k = 1 THEN <<1, 0>>
                              ELSE Complex(SubSeq(term, 1, k - 1))
           /\ last.str = Str_2aDag_a_plus_1 =>
                /\ d = (<<"a", "+", "_", "a">> :> <<2, 0>>) @@ (<<>> :> <<1, 0>>)
                /\ objs[last.res].modes = <<"a">>

\* a key in canonical form: "_"-separated operators, modes ascending, and in
\* each mode every creation operator before every annihilation operator
IsOperator(tok) == \E m \in ModeLetters : tok = <<m>> \/ tok = <<m, "+">>

Canonical(key) ==
    \/ key = <<>>
    \/ LET toks == Split(key, US)
       IN /\ \A i \in 1..Len(toks) : IsOperator(toks[i])
          /\ \A i, k \in 1..Len(toks) :
                i < k => /\ Ord(toks[i][1]) <= Ord(toks[k][1])
                         /\ (toks[i][1] = toks[k][1] /\ Len(toks[i]) = 1)
                               => Len(toks[k]) = 1

\* C4: every key of an Expression returned by multiply, or by power with an
\* exponent of at least 2, is in canonical form.
C4_ProductKeysCanonical ==
    (Called("multiply") \/ (Called("power") /\ last.exponent >= 2)) =>
        \A key \in Keys(DictOf(Heap, last.res)) : Canonical(key)

\* C5: scalar_multiply(A, s) returns an Expression with A's keys, A's
\* coefficients times s, and A's mode set.
C5_ScalarMultiplyFrame ==
    Called("scalar_multiply") =>
        LET A == DictOf(Heap, last.a)
            R == DictOf(Heap, last.res)
        IN /\ Keys(R) = Keys(A)
           /\ \A key \in Keys(A) : R[key] = CMul(A[key], last.scalar)
           /\ objs[last.res].modes = objs[last.a].modes

\* C8: no call of add, multiply, power or scalar_multiply changes the term
\* map or the mode set of an Expression that existed before the call, its
\* operands included, also when both operands are the same Expression.
C8_OperandsUnchanged ==
    [][\A e \in 1..Len(objs) :
          /\ Len(objs') >= e
          /\ objs'[e] = objs[e]
          /\ dicts'[objs'[e].expr_dict] = dicts[objs[e].expr_dict]]_vars

\* a product of an Expression with itself has been returned, with terms
C8_Witness ==
    /\ Called("multiply")
    /\ last.a = last.b
    /\ Keys(DictOf(Heap, last.res)) # {}
    /\ Keys(DictOf(Heap, last.a)) # {}

----------------------------------------------------------------------------
(* A test program on three parsed Expressions A, B, C: the products and sums *)
(* the algebraic laws compare.  Statement k leaves its result in objs[k]; a  *)
(* statement that raises ends the program.                                   *)

\* "a", "a+", "b", "b+", "c+", "a+_a", "b+_b", "1", "a(+)1", "2b_a+"
LawInputs ==
    {<<"a">>,
     <<"a", "+">>,
     <<"b">>,
     <<"b", "+">>,
     <<"c", "+">>,
     <<"a", "+", "_", "a">>,
     <<"b", "+", "_", "b">>,
     <<"1">>,
     <<"a", "(", "+", ")", "1">>,
     <<"2", "b", "_", "a", "+">>}

StrOne == <<"1">>

Stmt(op, a, b) == [Idle EXCEPT !.op = op, !.a = a, !.b = b]

Program ==
    << [Idle EXCEPT !.op = "Expression", !.str = inp[1]],   \* 1: A
       [Idle EXCEPT !.op = "Expression", !.str = inp[2]],   \* 2: B
       [Idle EXCEPT !.op = "Expression", !.str = inp[3]],   \* 3: C
       Stmt("multiply", 1, 2),                              \* 4: A.multiply(B)
       Stmt("multiply", 2, 1),                              \* 5: B.multiply(A)
       Stmt("multiply", 2, 3),                              \* 6: B.multiply(C)
       Stmt("multiply", 4, 3),                              \* 7: (A B) C
       Stmt("multiply", 1, 6),                              \* 8: A (B C)
       [Idle EXCEPT !.op = "Expression", !.str = StrOne],   \* 9: Expression("1")
       Stmt("add", 5, 9),                                   \* 10: add(B A, 1)
       [Idle EXCEPT !.op = "power", !.a = 1, !.exponent = 2], \* 11: power(A, 2)
       Stmt("multiply", 1, 1) >>                            \* 12: A.multiply(A)

Run(r, call) ==
    /\ objs' = r.heap.objs
    /\ dicts' = r.heap.dicts
    /\ last' = [call EXCEPT !.res = r.res, !.raised = r.raised]
    /\ pc' = IF r.raised THEN 0 ELSE pc + 1
    /\ UNCHANGED <<inp, stack, ret>>

AtStmt(op) == pc \in 1..Len(Program) /\ Program[pc].op = op

LawConstruct ==
    /\ AtStmt("Expression")
    /\ Run(Construct(Heap, Program[pc].str), Program[pc])

LawMultiply ==
    /\ AtStmt("multiply")
    /\ Run(multiply(Heap, Program[pc].a, Program[pc].b), Program[pc])

LawAdd ==
    /\ AtStmt("add")
    /\ Run(add(Heap, Program[pc].a, Program[pc].b), Program[pc])

LawPower ==
    /\ AtStmt("power")
    /\ Run(power(Heap, Program[pc].a, Program[pc].exponent), Program[pc])

InitLaws ==
    /\ objs = <<>>
    /\ dicts = <<>>
    /\ last = Idle
    /\ pc = 1
    /\ inp \in LawInputs \X LawInputs \X LawInputs
    /\ stack = <<>>
    /\ ret = EmptyDict

NextLaws == LawConstruct \/ LawMultiply \/ LawAdd \/ LawPower

SpecLaws == InitLaws /\ [][NextLaws]_vars

----------------------------------------------------------------------------
(* Properties of the test program SpecLaws *)

Done(k) == pc > k

Annihilate(m) == <<m>>
Create(m) == <<m, "+">>
NumberKey(m) == <<m, "+", "_", m>>

\* C1: with A = "m" and B = "m+", A.multiply(B) and
\* add(B.multiply(A), Expression("1")) have the same term map, and both are
\* {"m+_m": 1, "": 1}.
C1_CommutationIdentity ==
    \A m \in ModeLetters :
        (Done(10) /\ inp[1] = Annihilate(m) /\ inp[2] = Create(m)) =>
            /\ DictOf(Heap, 4) = DictOf(Heap, 10)
            /\ DictOf(Heap, 4) = (NumberKey(m) :> <<1, 0>>) @@ (<<>> :> <<1, 0>>)
            /\ DictOf(Heap, 10) = (NumberKey(m) :> <<1, 0>>) @@ (<<>> :> <<1, 0>>)

\* C3: (A.multiply(B)).multiply(C) and A.multiply(B.multiply(C)) have the
\* same keys and the same coefficient on every key, for parsed A, B, C,
\* constant terms included.
C3_MultiplyAssociative == Done(8) => compare_expr(Heap, 7, 8)

\* C6: with A = "m+_m", power(A, 2) and A.multiply(A) are exactly
\* {"m+_m+_m_m": 1, "m+_m": 1}.
C6_QuarticExpansion ==
    \A m \in ModeLetters :
        (Done(12) /\ inp[1] = NumberKey(m)) =>
            LET quartic == (<<m, "+", "_", m, "+", "_", m, "_", m>> :> <<1, 0>>)
                           @@ (NumberKey(m) :> <<1, 0>>)
            IN /\ DictOf(Heap, 11) = quartic
               /\ DictOf(Heap, 12) = quartic

C6_Witness ==
    /\ Done(12)
    /\ inp[1] = NumberKey("b")
    /\ Cardinality(Keys(DictOf(Heap, 11))) = 2

\* a non-empty term whose operators are all of mode m, creation first
SingleModeNormal(term, m) ==
    /\ term # <<>>
    /\ Canonical(term)
    /\ \A tok \in Range(Split(term, US)) : tok[1] = m

\* C7: for a normal-ordered term t of mode x and a normal-ordered term u of
\* a mode y after x, t times u and u times t are both exactly {t_u: 1}.
C7_CrossModeCommute ==
    \A x, y \in ModeLetters :
        (/\ Done(5)
         /\ Ord(x) < Ord(y)
         /\ SingleModeNormal(inp[1], x)
         /\ SingleModeNormal(inp[2], y)) =>
            /\ DictOf(Heap, 4) = (inp[1] \o US \o inp[2]) :> <<1, 0>>
            /\ DictOf(Heap, 5) = (inp[1] \o US \o inp[2]) :> <<1, 0>>

C7_Witness ==
    /\ Done(5)
    /\ inp[1] = NumberKey("a")
    /\ inp[2] = NumberKey("b")
    /\ Keys(DictOf(Heap, 5)) = {<<"a", "+", "_", "a", "_", "b", "+", "_", "b">>}

----------------------------------------------------------------------------
(* normal_ordering step by step: the call stack of the recursion.  A frame   *)
(* holds the term of its call, where the call stands ("start": before the    *)
(* find; "n": inside the first recursive call; "one": inside the second)     *)
(* and the dict the first recursive call returned.  ret is the value of the  *)
(* call that returned last; the outermost call has returned when the stack   *)
(* is empty.                                                                 *)

MaxLen == 5
MaxDepth == 10

RECURSIVE Join(_)
\* "_".join(tokens)
Join(tokens) ==
    IF tokens = <<>> THEN <<>>
    ELSE IF Len(tokens) = 1 THEN tokens[1]
    ELSE tokens[1] \o US \o Join(Tail(tokens))

\* the terms of at most MaxLen operators of one mode
SingleModeTerms(m) ==
    {Join(ts) : ts \in UNION {[1..n -> {Annihilate(m), Create(m)}] : n \in 0..MaxLen}}

Coeffs == {<<1, 0>>, <<0, 2>>}

Frame(term) == [term |-> term, at |-> "start", first |-> EmptyDict]

Top == stack[Len(stack)]

Pop == SubSeq(stack, 1, Len(stack) - 1)

SetTop(frame) == [stack EXCEPT ![Len(stack)] = frame]

\* lines 292-296: no n_dag in the term, return {single_mode_term: coeff}
NOReturnOrdered ==
    /\ stack # <<>>
    /\ Top.at = "start"
    /\ FindNDag(inp[1], Top.term) = -1
    /\ ret' = Single(Top.term, inp[3])
    /\ stack' = Pop
    /\ UNCHANGED <<objs, dicts, last, pc, inp>>

\* lines 298-309: the first argument of add_expr_dicts is evaluated, the
\* recursive call on term_with_n
NOCallWithN ==
    /\ stack # <<>>
    /\ Top.at = "start"
    /\ FindNDag(inp[1], Top.term) # -1
    /\ Len(stack) <= MaxDepth
    /\ \E idx \in {FindNDag(inp[1], Top.term)} :
          stack' = Append(SetTop([Top EXCEPT !.at = "n"]),
                          Frame(term_with_n(inp[1], Top.term, idx)))
    /\ UNCHANGED <<objs, dicts, last, pc, inp, ret>>

\* line 310: the first call has returned, the second argument is evaluated,
\* the recursive call on term_with_1
NOCallWithOne ==
    /\ stack # <<>>
    /\ Top.at = "n"
    /\ \E idx \in {FindNDag(inp[1], Top.term)} :
          stack' = Append(SetTop([Top EXCEPT !.at = "one", !.first = ret]),
                          Frame(term_with_1(inp[1], Top.term, idx)))
    /\ UNCHANGED <<objs, dicts, last, pc, inp, ret>>

\* lines 308-312: both calls have returned, add_expr_dicts merges the second
\* dict into the first and the call returns it
NOReturnSum ==
    /\ stack # <<>>
    /\ Top.at = "one"
    /\ ret' = add_expr_dicts(Top.first, ret)
    /\ stack' = Pop
    /\ UNCHANGED <<objs, dicts, last, pc, inp>>

InitNO ==
    /\ objs = <<>>
    /\ dicts = <<>>
    /\ last = Idle
    /\ pc = 0
    /\ inp \in {<<m, t, c>> : m \in {"a", "b"}, t \in SingleModeTerms("a")
                                 \cup SingleModeTerms("b"), c \in Coeffs}
    /\ inp[2] \in SingleModeTerms(inp[1])
    /\ stack = <<Frame(inp[2])>>
    /\ ret = EmptyDict

NextNO == NOReturnOrdered \/ NOCallWithN \/ NOCallWithOne \/ NOReturnSum

\* the interpreter runs the call to its end: a step that can be taken is taken
SpecNO == InitNO /\ [][NextNO]_vars /\ WF_vars(NextNO)

----------------------------------------------------------------------------
(* Properties of the reducer SpecNO *)

NOReturned == stack = <<>>

\* operators of a term, and those pairs (i, k), i before k, with an
\* annihilation operator at i and a creation operator at k
OperatorsOf(term) == IF term = <<>> THEN <<>> ELSE Split(term, US)

InvertedPairs(m, term) ==
    LET toks == OperatorsOf(term)
    IN {p \in (1..Len(toks)) \X (1..Len(toks)) :
          p[1] < p[2] /\ toks[p[1]] = Annihilate(m) /\ toks[p[2]] = Create(m)}

Inversions(m, term) == Cardinality(InvertedPairs(m, term))

AdjacentInversions(m, term) ==
    Cardinality({p \in InvertedPairs(m, term) : p[2] = p[1] + 1})

\* no annihilation operator of mode m is followed, at once or later, by a
\* creation operator of mode m
NormalOrdered(m, term) == Inversions(m, term) = 0

\* nesting depth of the recursion: rewrite steps on the current call path
Depth == Len(stack) - 1

\* C9: normal_ordering returns for every single-mode term, and no key of
\* the mapping it returns has an annihilation operator followed by a creation
\* operator of the mode.
C9_TerminatesNormalOrdered ==
    /\ <>NOReturned
    /\ [](NOReturned =>
             \A key \in Keys(ret) :
                 /\ NormalOrdered(inp[1], key)
                 /\ Find(key, n_dag(inp[1])) = -1)

\* the reversed term a_a_a+_a+ has been reduced to its three normal terms
C9_Witness ==
    /\ NOReturned
    /\ inp[2] = <<"a", "_", "a", "_", "a", "+", "_", "a", "+">>
    /\ Cardinality(Keys(ret)) = 3

\* C10 as stated: the nesting depth never exceeds the number of adjacent
\* inverted pairs (annihilation immediately followed by creation) of the
\* input term.
C10_DepthWithinAdjacentInversions ==
    stack # <<>> => Depth <= AdjacentInversions(inp[1], inp[2])

\* C10 amended: the nesting depth never exceeds the number of inverted pairs
\* of the input term, adjacent or not (an annihilation operator anywhere
\* before a creation operator).
C10_DepthWithinInversions ==
    stack # <<>> => Depth <= Inversions(inp[1], inp[2])

\* the bound is met on a term with more inverted pairs than adjacent ones
C10_Witness ==
    /\ stack # <<>>
    /\ Depth = Inversions(inp[1], inp[2])
    /\ Depth > AdjacentInversions(inp[1], inp[2])

\* the out-of-order pair (annihilation, creation) of mode m starts at
\* operator position q of the term, positions counted from 0
DAt(m, term, q) ==
    LET toks == OperatorsOf(term)
    IN /\ q >= 0
       /\ q + 2 <= Len(toks)
       /\ toks[q + 1] = Annihilate(m)
       /\ toks[q + 2] = Create(m)

\* operator position of the pair that the call on the term rewrites: the
\* number of operators in left
RewritePosition(m, term) ==
    Len(OperatorsOf(NOLeft(term, FindNDag(m, term))))

\* the calls that are inside their first recursive call: stack[k] is the
\* term before the rewrite, stack[k + 1] started on term_with_n
InBranchA == {k \in 1..(Len(stack) - 1) : stack[k].at = "n"}

\* C11 as stated: when normal_ordering replaces the leftmost out-of-order
\* pair, at operator position p, by the number operator, no out-of-order pair
\* of the rewritten term starts at a position left of p.
C11_NoPairLeftOfRewrite ==
    \A k \in InBranchA :
        LET p == RewritePosition(inp[1], stack[k].term)
        IN /\ DAt(inp[1], stack[k].term, p)
           /\ \A q \in 0..(p - 1) : ~DAt(inp[1], stack[k].term, q)
           /\ \A q \in 0..(p - 1) : ~DAt(inp[1], stack[k + 1].term, q)

\* C11 amended: the pair rewritten is the leftmost one, and no out-of-order
\* pair of the rewritten term starts at a position left of p - 1; one
\* starts at p - 1 exactly when the operator before the rewritten pair is an
\* annihilation operator.
C11_NoPairLeftOfPredecessor ==
    \A k \in InBranchA :
        LET p == RewritePosition(inp[1], stack[k].term)
        IN /\ DAt(inp[1], stack[k].term, p)
           /\ \A q \in 0..(p - 1) : ~DAt(inp[1], stack[k].term, q)
           /\ \A q \in 0..(p - 2) : ~DAt(inp[1], stack[k + 1].term, q)
           /\ DAt(inp[1], stack[k + 1].term, p - 1)
                 <=> (p >= 1 /\ OperatorsOf(stack[k].term)[p] = Annihilate(inp[1]))

\* a rewrite at position 2 or later has put an out-of-order pair just before
\* the place it rewrote
C11_Witness ==
    \E k \in InBranchA :
        LET p == RewritePosition(inp[1], stack[k].term)
        IN /\ p >= 2
           /\ DAt(inp[1], stack[k + 1].term, p - 1)

\* the depth cap of the model never stops a call that the code would make
NOCapUnused ==
    (stack # <<>> /\ Top.at = "start" /\ FindNDag(inp[1], Top.term) # -1)
        => Len(stack) <= MaxDepth

\* the stack machine returns what the recursive definition gives
NOAgrees == NOReturned => ret = normal_ordering(inp[1], inp[2], inp[3])

====
